---- MODULE Spec2Model ----
(***************************************************************************)
(* The documentation cog of bot/cogs/doc/cog.py as a state machine: the    *)
(* inventory merge of DocCog.update_single, the refresh of                 *)
(* DocCog.refresh_inventory, the per-page parse queues of the class        *)
(* TODO_PLACEHOLDER, and the resolve path DocCog.get_symbol_embed ->       *)
(* DocCog.get_symbol_markdown -> wait_for_item / parse_items; beside it the *)
(* async_cache decorator of bot/cogs/doc.py and _truncate_markdown of      *)
(* bot/cogs/doc/parsing.py.                                                *)
(*                                                                         *)
(* One asyncio event loop runs everything: a coroutine runs uninterrupted  *)
(* from one await that really suspends to the next, so each action below   *)
(* is one such stretch of code.                                            *)
(***************************************************************************)
EXTENDS Integers, Sequences, FiniteSets, TLC

\* ------------------------------------------------------------------ bounds
\* resolve calls (docs get commands) issued in a behaviour
NumCallers == 2
\* refreshes (the initial one, refresh commands, delete commands) in a behaviour
MaxRefresh == 2
\* set commands in a behaviour
MaxSet == 1
\* refreshes in a behaviour that also has set commands, delete commands and
\* failing inventory fetches
FewRefreshes == 1
\* capacity of the async_cache (max_size, 128 by default), scaled down
MaxSize == 2
\* max_length of _truncate_markdown (1000 in _parse_into_markdown), scaled down
MaxLength == 9
\* the start offset of the search for a paragraph break (100), scaled down
SearchStart == 2
\* segments a text handed to _truncate_markdown is made of
MaxSegments == 5
\* inventory entries fed one by one to the two collision cascades
MaxFed == 3
\* definition terms before and after the anchor's own
MaxSiblings == 1
\* stands for the 500 characters a signature is shortened to
MaxSignature == 6

\* ------------------------------------------------------- program constants
NO_OVERRIDE_GROUPS == {"2to3fixer", "token", "label", "pdbcommand", "term"}
NO_OVERRIDE_PACKAGES == {"python"}
FAILED_REQUEST_RETRY_AMOUNT == 3

\* -------------------------------------------------------- the environment
\* The registered documentation sources: package name -> base URL.  The
\* inventory URL of a source is identified with its package name.
Sources == {"python", "lib"}

BaseUrlOf(package) ==
    IF package = "python" THEN "https://docs.python.org/3/" ELSE "https://lib.io/"

\* url.split("/", 3)[2] of an absolute URL that starts with base_url: the host
UrlHost(base_url) ==
    IF base_url = "https://docs.python.org/3/" THEN "docs.python.org" ELSE "lib.io"

\* `package in symbol_base_url`: the substring test on the hosts of the model
IsSubstring(package, host) == package = "python" /\ host = "docs.python.org"

\* One inventory entry: the "domain:group" tag split at the colon, the symbol,
\* and the relative URL split at "#" (what str.partition("#") returns).
Entry(domain, group, symbol, path, id) ==
    [group |-> <<domain, group>>, symbol |-> symbol, relative_doc_url |-> <<path, id>>]

\* Inventories a source can serve, in the iteration order of the fetched dict.
InvApi ==
    << Entry("py", "class", "foo", "api.html", "foo"),
       Entry("py", "function", "bar", "api.html", "bar") >>
InvRef ==
    << Entry("std", "doc", "a/b", "a/b.html", ""),
       Entry("std", "label", "foo", "ref.html", "foo") >>
InvChoices == {InvApi, InvRef}

\* "/" in symbol
HasSlash(symbol) == symbol = "a/b"

\* Every page key (base_url + relative_url_path) an ingestion can create.
Pages ==
    UNION { { BaseUrlOf(s) \o i[n].relative_doc_url[1] : n \in DOMAIN i } :
              s \in Sources, i \in InvChoices }

Callers == 1..NumCallers
Refreshes == 1..MaxRefresh
\* Owner 0 is a set command, owner r >= 1 the refresh r.
Owners == 0..MaxRefresh

\* Python's None
None == [none |-> TRUE]

\* The anchors that the page a source serves can lack, as sets of symbol URLs.
AbsentChoices == {{}, {"https://docs.python.org/3/api.html#bar"}}

\* ------------------------------------------------------------- DocItem
DocItem(name, package, group, base_url, relative_url_path, symbol_id) ==
    [name |-> name, package |-> package, group |-> group, base_url |-> base_url,
     relative_url_path |-> relative_url_path, symbol_id |-> symbol_id]

\* DocItem.url
ItemUrl(item) == item.base_url \o item.relative_url_path \o "#" \o item.symbol_id

\* the key of self.urls for an item
PageOf(item) == item.base_url \o item.relative_url_path

\* dict[k] = v
Put(d, k, v) == (k :> v) @@ d

\* ------------------------------------------------- TODO_PLACEHOLDER (queue)
\* list.remove(item): removes the first occurrence
RECURSIVE RemoveFirst(_, _)
RemoveFirst(q, item) ==
    IF q = <<>> THEN <<>>
    ELSE IF Head(q) = item THEN Tail(q)
    ELSE <<Head(q)>> \o RemoveFirst(Tail(q), item)

InQueue(q, item) == \E n \in 1..Len(q) : q[n] = item

add_item(q, item) == Append(q, item)

\* defined when InQueue(q, item); list.remove raises ValueError otherwise
put_to_front(q, item) == Append(RemoveFirst(q, item), item)

\* ------------------------------------------------ DocCog.update_single body
\* f"{prefix}.{symbol}"
Prefixed(prefix, symbol) == prefix \o "." \o symbol

\* group.split(":")[1]
GroupName(group) == group[2]

\* The first branch of the collision cascade.
KeepsExisting(tab, symbol, group_name) ==
    \/ group_name \in NO_OVERRIDE_GROUPS
    \/ \E package \in NO_OVERRIDE_PACKAGES :
          IsSubstring(package, UrlHost(tab[symbol].base_url))

\* the existing entry is put back under its own key
OverriddenKeySame(renamed, api_package_name, group, symbol) == symbol

\* the existing entry goes under "{group}.{symbol}" whatever is renamed
OverriddenKeyUnprefixed(renamed, api_package_name, group, symbol) ==
    Prefixed(group, symbol)

\* The key under which the existing entry is re-inserted in the second branch.
OverriddenKey(renamed, api_package_name, group, symbol) ==
    IF Prefixed(group, symbol) \in renamed
    THEN Prefixed(api_package_name, Prefixed(group, symbol))
    ELSE Prefixed(group, symbol)

\* the cascade with the renamed-set check made after the first two branches
CascadeIndependent(tab, renamed, api_package_name, symbol, group_name) ==
    IF symbol \notin DOMAIN tab
    THEN [symbol |-> symbol, tab |-> tab, renamed |-> renamed]
    ELSE LET branches ==
                 IF KeepsExisting(tab, symbol, group_name)
                 THEN [symbol |-> Prefixed(group_name, symbol), tab |-> tab,
                       renamed |-> renamed \cup {Prefixed(group_name, symbol)}]
                 ELSE IF tab[symbol].group \in NO_OVERRIDE_GROUPS
                 THEN LET overridden_symbol ==
                              OverriddenKey(renamed, api_package_name,
                                            tab[symbol].group, symbol)
                      IN  [symbol |-> symbol,
                           tab |-> Put(tab, overridden_symbol, tab[symbol]),
                           renamed |-> renamed \cup {overridden_symbol}]
                 ELSE [symbol |-> symbol, tab |-> tab, renamed |-> renamed]
         IN  IF branches.symbol \in branches.renamed
             THEN [symbol |-> Prefixed(api_package_name, branches.symbol),
                   tab |-> branches.tab,
                   renamed |-> branches.renamed
                                 \cup {Prefixed(api_package_name, branches.symbol)}]
             ELSE branches

\* the first branch marks "{group}.{symbol}" renamed but keeps the symbol
CascadeMarksOnly(tab, renamed, api_package_name, symbol, group_name) ==
    IF symbol \in DOMAIN tab /\ KeepsExisting(tab, symbol, group_name)
    THEN [symbol |-> symbol, tab |-> tab,
          renamed |-> renamed \cup {Prefixed(group_name, symbol)}]
    ELSE CascadeIndependent(tab, renamed, api_package_name, symbol, group_name)

\* The state the collision cascade leaves: the key for the new entry, the
\* table and the renamed set.
Cascade(tab, renamed, api_package_name, symbol, group_name) ==
    IF symbol \notin DOMAIN tab
    THEN [symbol |-> symbol, tab |-> tab, renamed |-> renamed]
    ELSE IF KeepsExisting(tab, symbol, group_name)
    THEN [symbol |-> Prefixed(group_name, symbol), tab |-> tab,
          renamed |-> renamed \cup {Prefixed(group_name, symbol)}]
    ELSE IF tab[symbol].group \in NO_OVERRIDE_GROUPS
    THEN LET overridden_symbol ==
                 OverriddenKey(renamed, api_package_name, tab[symbol].group, symbol)
         IN  [symbol |-> symbol,
              tab |-> Put(tab, overridden_symbol, tab[symbol]),
              renamed |-> renamed \cup {overridden_symbol}]
    ELSE IF symbol \in renamed
    THEN [symbol |-> Prefixed(api_package_name, symbol), tab |-> tab,
          renamed |-> renamed \cup {Prefixed(api_package_name, symbol)}]
    ELSE [symbol |-> symbol, tab |-> tab, renamed |-> renamed]

\* One iteration of the loop over the inventory entries.  st is the record
\* [doc_symbols, renamed_symbols, queue] the loop works on.
IngestEntry(st, api_package_name, base_url, e) ==
    IF HasSlash(e.symbol) THEN st
    ELSE LET group_name == GroupName(e.group)
             c == Cascade(st.doc_symbols, st.renamed_symbols, api_package_name,
                          e.symbol, group_name)
             item == DocItem(c.symbol, api_package_name, group_name, base_url,
                             e.relative_doc_url[1], e.relative_doc_url[2])
         IN  [doc_symbols |-> Put(c.tab, c.symbol, item),
              renamed_symbols |-> c.renamed,
              queue |-> [st.queue EXCEPT ![PageOf(item)] = add_item(@, item)]]

\* The loop over all entries of the fetched inventory, from entry n on.
RECURSIVE IngestFrom(_, _, _, _, _)
IngestFrom(st, api_package_name, base_url, package, n) ==
    IF n > Len(package) THEN st
    ELSE IngestFrom(IngestEntry(st, api_package_name, base_url, package[n]),
                    api_package_name, base_url, package, n + 1)

IngestAll(st, api_package_name, base_url, package) ==
    IngestFrom(st, api_package_name, base_url, package, 1)

\* ----------------------------------------- Doc.update_single of doc.py
\* The DocItem of doc.py: package, url, group.  The url is kept in its two
\* pieces, base_url + relative_doc_url.
OldDocItem(package, base_url, relative_doc_url, group) ==
    [package |-> package, base_url |-> base_url,
     relative_doc_url |-> relative_doc_url, group |-> group]

\* the cascade of doc.py taken to be that of cog.py
CascadeOldAsCog(tab, renamed, api_package_name, symbol, group_name) ==
    Cascade(tab, renamed, api_package_name, symbol, group_name)

\* The collision cascade of doc.py: the first branch renames without marking,
\* and the renamed-set check is a step of its own after the two branches.
CascadeOld(tab, renamed, api_package_name, symbol, group_name) ==
    IF symbol \notin DOMAIN tab
    THEN [symbol |-> symbol, tab |-> tab, renamed |-> renamed]
    ELSE LET branches ==
                 IF KeepsExisting(tab, symbol, group_name)
                 THEN [symbol |-> Prefixed(group_name, symbol), tab |-> tab,
                       renamed |-> renamed]
                 ELSE IF tab[symbol].group \in NO_OVERRIDE_GROUPS
                 THEN LET overridden_symbol ==
                              OverriddenKey(renamed, api_package_name,
                                            tab[symbol].group, symbol)
                      IN  [symbol |-> symbol,
                           tab |-> Put(tab, overridden_symbol, tab[symbol]),
                           renamed |-> renamed \cup {overridden_symbol}]
                 ELSE [symbol |-> symbol, tab |-> tab, renamed |-> renamed]
         IN  IF branches.symbol \in branches.renamed
             THEN [symbol |-> Prefixed(api_package_name, branches.symbol),
                   tab |-> branches.tab,
                   renamed |-> branches.renamed
                                 \cup {Prefixed(api_package_name, branches.symbol)}]
             ELSE branches

\* One iteration of the loop of doc.py over the inventory entries.
IngestEntryOld(st, api_package_name, base_url, e) ==
    IF HasSlash(e.symbol) THEN st
    ELSE LET group_name == GroupName(e.group)
             c == CascadeOld(st.doc_symbols, st.renamed_symbols, api_package_name,
                             e.symbol, group_name)
             item == OldDocItem(api_package_name, base_url,
                                e.relative_doc_url[1] \o "#" \o e.relative_doc_url[2],
                                group_name)
         IN  [doc_symbols |-> Put(c.tab, c.symbol, item),
              renamed_symbols |-> c.renamed]

\* The entries fed to the cascades: those of the inventories, and two whose
\* names are dotted like a renamed key.
CascadeEntries ==
    { InvApi[n] : n \in DOMAIN InvApi } \cup { InvRef[n] : n \in DOMAIN InvRef }
    \cup { Entry("py", "attribute", "class.foo", "api.html", "class.foo"),
           Entry("py", "attribute", "label.foo", "ref.html", "label.foo") }

\* both variants before the first entry
EmptyTables ==
    [cog |-> [doc_symbols |-> <<>>, renamed_symbols |-> {},
              queue |-> [p \in Pages |-> <<>>]],
     old |-> [doc_symbols |-> <<>>, renamed_symbols |-> {}]]

\* ------------------------------------------- parsing._truncate_markdown
\* Strings are sequences of characters.  Positions are Python's: from 0.
\* The backquote character is written "'" here.
Tick == "'"
Fence == <<Tick, Tick, Tick>>
FencePy == <<Tick, Tick, Tick, "p", "y">>
ParagraphBreak == <<"\n", "\n">>
Ellipsis == <<".", ".", ".">>
\* the search strings of the for loop, in decreasing desirability
CutoffStrings == << <<".", " ">>, <<",", " ">>, <<",">>, <<" ">> >>
\* the characters of string.punctuation and of str.rstrip()'s whitespace that
\* the texts of the model contain
Punctuation == {Tick, ".", ","}
Whitespace == {" ", "\n"}

\* The texts: up to MaxSegments of these segments, concatenated.
Segments == { <<"a", "a", "a">>, <<" ">>, <<".">>, <<",">>, ParagraphBreak, FencePy, Fence }

RECURSIVE Flatten(_)
Flatten(ss) == IF ss = <<>> THEN <<>> ELSE Head(ss) \o Flatten(Tail(ss))

Texts == { Flatten(ss) : ss \in UNION { [1..n -> Segments] : n \in 0..MaxSegments } }

\* s[:n]
Slice(s, n) ==
    IF n >= 0 THEN SubSeq(s, 1, IF n < Len(s) THEN n ELSE Len(s))
    ELSE SubSeq(s, 1, IF Len(s) + n > 0 THEN Len(s) + n ELSE 0)

\* s[i:i+len(sub)] == sub
MatchAt(s, sub, i) ==
    /\ i + Len(sub) <= Len(s)
    /\ SubSeq(s, i + 1, i + Len(sub)) = sub

\* s.rfind(sub, start)
RFind(s, sub, start) ==
    LET hits == {i \in start..(Len(s) - Len(sub)) : MatchAt(s, sub, i)}
    IN  IF hits = {} THEN -1 ELSE CHOOSE i \in hits : \A j \in hits : j <= i

\* s.count(sub), counted from position i on: occurrences that do not overlap
RECURSIVE CountFrom(_, _, _)
CountFrom(s, sub, i) ==
    IF i + Len(sub) > Len(s) THEN 0
    ELSE IF MatchAt(s, sub, i) THEN 1 + CountFrom(s, sub, i + Len(sub))
    ELSE CountFrom(s, sub, i + 1)

Count(s, sub) == CountFrom(s, sub, 0)

\* s.rstrip(chars)
RECURSIVE RStrip(_, _)
RStrip(s, chars) ==
    IF s # <<>> /\ s[Len(s)] \in chars THEN RStrip(SubSeq(s, 1, Len(s) - 1), chars)
    ELSE s

\* the for ... else over the cutoff strings, from string n on
RECURSIVE CutoffFrom(_, _, _)
CutoffFrom(shortened, max_length, n) ==
    IF n > Len(CutoffStrings) THEN max_length
    ELSE IF RFind(shortened, CutoffStrings[n], 0) # -1
    THEN RFind(shortened, CutoffStrings[n], 0)
    ELSE CutoffFrom(shortened, max_length, n + 1)

TruncateMarkdown(text, max_length) ==
    IF Len(text) > max_length
    THEN LET shortened == Slice(text, max_length)
             paragraph == RFind(shortened, ParagraphBreak, SearchStart)
             description_cutoff ==
                 IF paragraph # -1 THEN paragraph
                 ELSE CutoffFrom(shortened, max_length, 1)
             cut == Slice(text, description_cutoff)
             complete ==
                 IF Count(cut, Fence) % 2 = 1
                 THEN RStrip(Slice(cut, RFind(cut, FencePy, 0)), Whitespace)
                 ELSE cut
         IN  RStrip(complete, Punctuation) \o Ellipsis
    ELSE text

\* ------------------------------------------ parsing.get_symbol_markdown
\* The pilcrow character is written "%" here.
Pilcrow == "%"

NO_SIGNATURE_GROUPS ==
    {"attribute", "envvar", "setting", "tempaltefilter", "templatetag", "term"}

\* the groups whose anchors are not description list tags
GeneralGroups == {"module", "doc", "label"}

\* the groups of the inventories of the model
Groups ==
    GeneralGroups
    \cup {"attribute", "envvar", "setting", "templatefilter", "templatetag", "term"}
    \cup {"class", "function"}

\* element.text of the dt tags of the model
TermTexts == { <<Pilcrow>>, <<"f", "(", ")", Pilcrow>>, <<"f", "f", "f", " ", "x", "x", "x">> }

\* the converted html under the anchor
Descriptions ==
    { <<"a", Pilcrow, "\n", "\n", " ", "a">>,
      <<"a", "a", "a", ".", " ", "a", "a", "a", ".", " ", "a", "a", "a">> }

\* The pages: the anchor's symbol group and tag name, the texts of the dt
\* siblings before it (nearest first) and after it up to a dd, its own text,
\* and the description under it.
SiblingTexts == UNION { [1..n -> TermTexts] : n \in 0..MaxSiblings }

PageChoices ==
    [group : Groups, name : {"dt", "div"}, previous : SiblingTexts,
     text : TermTexts, next : SiblingTexts, description : Descriptions]

\* s.replace(c, '') and _UNWANTED_SIGNATURE_SYMBOLS_RE.sub("", s) for the
\* texts of the model, which hold the pilcrow only
RECURSIVE Without(_, _)
Without(s, c) ==
    IF s = <<>> THEN <<>>
    ELSE IF Head(s) = c THEN Without(Tail(s), c)
    ELSE <<Head(s)>> \o Without(Tail(s), c)

\* the first n elements: the limit of the find methods
Take(s, n) == SubSeq(s, 1, IF n < Len(s) THEN n ELSE Len(s))

\* s[-n:]
LastOf(s, n) == SubSeq(s, IF Len(s) > n THEN Len(s) - n + 1 ELSE 1, Len(s))

Reversed(s) == [n \in 1..Len(s) |-> s[Len(s) - n + 1]]

\* the loop of _get_signatures over the texts, from text n on
RECURSIVE SignaturesFrom(_, _)
SignaturesFrom(texts, n) ==
    IF n > Len(texts) THEN <<>>
    ELSE LET signature == Without(texts[n], Pilcrow)
         IN  (IF signature # <<>> THEN <<signature>> ELSE <<>>)
             \o SignaturesFrom(texts, n + 1)

\* _get_signatures
GetSignatures(page) ==
    SignaturesFrom(
        LastOf(Reversed(Take(page.previous, 2)) \o <<page.text>> \o Take(page.next, 2), 3),
        1)

\* The branches of get_symbol_markdown: the signature handed to
\* _parse_into_markdown, None or the list of signatures.
SignatureOf(page) ==
    IF page.group \in GeneralGroups THEN None
    ELSE IF page.name # "dt" THEN None
    ELSE IF page.group \in NO_SIGNATURE_GROUPS THEN None
    ELSE [list |-> GetSignatures(page)]

\* _WHITESPACE_AFTER_NEWLINES_RE.sub('', s), from position i on: a run of
\* whitespace that follows two newlines goes
RECURSIVE AfterNewlinesFrom(_, _, _)
AfterNewlinesFrom(s, i, inRun) ==
    IF i > Len(s) THEN <<>>
    ELSE IF /\ s[i] \in Whitespace
            /\ \/ inRun
               \/ i > 2 /\ s[i - 1] = "\n" /\ s[i - 2] = "\n"
    THEN AfterNewlinesFrom(s, i + 1, TRUE)
    ELSE <<s[i]>> \o AfterNewlinesFrom(s, i + 1, FALSE)

\* str.split(): the words of s from position i on, word being the one begun
RECURSIVE WordsFrom(_, _, _)
WordsFrom(s, i, word) ==
    IF i > Len(s) THEN (IF word = <<>> THEN <<>> ELSE <<word>>)
    ELSE IF s[i] \in Whitespace
    THEN (IF word = <<>> THEN <<>> ELSE <<word>>) \o WordsFrom(s, i + 1, <<>>)
    ELSE WordsFrom(s, i + 1, Append(word, s[i]))

\* " ".join(words)
RECURSIVE JoinWords(_)
JoinWords(words) ==
    IF words = <<>> THEN <<>>
    ELSE IF Len(words) = 1 THEN words[1]
    ELSE words[1] \o <<" ">> \o JoinWords(Tail(words))

Placeholder == <<" ", "[", ".", ".", ".", "]">>

\* textwrap.shorten(s, width) for texts whose words are not longer than the
\* width: the words that fit beside the placeholder, then the placeholder
Shorten(s, width) ==
    LET words == WordsFrom(s, 1, <<>>)
    IN  IF Len(JoinWords(words)) <= width THEN JoinWords(words)
        ELSE LET fits == {n \in 0..Len(words) :
                             Len(JoinWords(Take(words, n))) + Len(Placeholder) <= width}
                 n == CHOOSE m \in fits : \A k \in fits : k <= m
             IN  IF n = 0 THEN Tail(Placeholder)
                 ELSE JoinWords(Take(words, n)) \o Placeholder

\* the python codeblocks of the signatures, from signature n on
RECURSIVE Codeblocks(_, _)
Codeblocks(signatures, n) ==
    IF n > Len(signatures) THEN <<>>
    ELSE FencePy \o <<"\n">> \o Shorten(signatures[n], MaxSignature) \o Fence
         \o Codeblocks(signatures, n + 1)

\* the description as _parse_into_markdown prepares it
PreparedDescription(description) ==
    AfterNewlinesFrom(TruncateMarkdown(description, MaxLength), 1, FALSE)

\* _parse_into_markdown
ParseIntoMarkdown(signatures, description) ==
    (IF signatures # None THEN Codeblocks(signatures.list, 1) ELSE <<>>)
    \o <<"\n">> \o PreparedDescription(description)

\* ---------------------------------------------- Doc.get_symbol_embed of doc.py
FallbackText == <<"This appears to be a generic page not tied to a specific symbol.">>

\* The embed description of doc.py, from the signatures and the truncated
\* description.
EmbedDescription(signatures, description) ==
    IF signatures = None THEN description
    ELSE IF signatures.list = <<>> THEN FallbackText
    ELSE Codeblocks(signatures.list, 1) \o <<"\n">> \o description

\* ------------------------------------------------------------------ state
VARIABLES
    inv,              \* what each source's inventory URL serves
    registered,       \* the packages of the site API's documentation links
    base_urls,        \* DocCog.base_urls
    doc_symbols,      \* DocCog.doc_symbols: key -> DocItem
    renamed_symbols,  \* DocCog.renamed_symbols
    objects,          \* DocCog.objects, the results_dict of every page queue
    cache,            \* async_cache.cache
    queue,            \* urls[page].queue, last element is popped next
    item_events,      \* urls[page].item_events: DocItem -> Event (its caller)
    started,          \* urls[page].started
    loops,            \* live parse_items tasks of each page
    evset,            \* the Events that are set
    call,             \* each resolve call: where it is, its DocItem, its result
    rt,               \* each refresh: where it is, the number of its clear, and
                      \* whether no other refresh or update was running at its clear
    upd,              \* each update_single task: where it is, its fetch attempt
    snap,             \* the table as each refresh found it when its gather returned
    nset,             \* set commands issued
    absent,           \* the symbol URLs whose anchor id the served page lacks
    cc,               \* each caller of the async_cache wrapper: where it is, its key
    hist,             \* the last store of the wrapper: key, value, whether a race
    markdown,         \* the text handed to _truncate_markdown
    truncated,        \* what _truncate_markdown returned, None before the call
    fed,              \* inventory entries fed to the two collision cascades
    tables,           \* what the cascade of cog.py and that of doc.py have built
    rendered          \* what get_symbol_markdown made of a page, None before the call

vars == <<inv, registered, base_urls, doc_symbols, renamed_symbols, objects, cache,
          queue, item_events, started, loops, evset, call, rt, upd, snap, nset,
          absent, cc, hist, markdown, truncated, fed, tables, rendered>>

cacheCalls == <<cc, hist>>
textState == <<markdown, truncated>>
cascadeState == <<fed, tables>>

cogState == <<base_urls, doc_symbols, renamed_symbols, cache>>
pageState == <<queue, item_events, started, loops, evset, objects>>
taskState == <<rt, upd, snap, nset, registered>>

\* number of table clears so far
Epoch == Cardinality({r \in Refreshes : rt[r].epoch > 0})

\* the last clear of a refresh whose gather has returned
LastCompleted ==
    LET done == {rt[r].epoch : r \in {x \in Refreshes : rt[x].pc = "done"}}
    IN  IF done = {} THEN 0 ELSE CHOOSE e \in done : \A f \in done : f <= e

IdleCall ==
    [pc |-> "idle", item |-> None, ret |-> None, fetched |-> FALSE,
     launched |-> FALSE]

\* a caller of the cached function that is not inside the wrapper
IdleCached == [pc |-> "idle", key |-> 0, raced |-> FALSE, epoch |-> 0]

\* the wrapper has not returned yet
NoReturn == [key |-> 0, value |-> None, computed |-> FALSE, later |-> FALSE]

\* DocCog.__init__: everything empty, every page queue in its default state
Init ==
    /\ inv \in [Sources -> InvChoices]
    /\ registered = Sources
    /\ base_urls = <<>>
    /\ doc_symbols = <<>>
    /\ renamed_symbols = {}
    /\ objects = <<>>
    /\ cache = <<>>
    /\ queue = [p \in Pages |-> <<>>]
    /\ item_events = [p \in Pages |-> <<>>]
    /\ started = [p \in Pages |-> FALSE]
    /\ loops = [p \in Pages |-> 0]
    /\ evset = {}
    /\ call = [c \in Callers |-> IdleCall]
    /\ rt = [r \in Refreshes |-> [pc |-> "idle", epoch |-> 0, alone |-> FALSE]]
    /\ upd = [t \in Owners \X Sources |-> [st |-> "none", attempt |-> 0]]
    /\ snap = [r \in Refreshes |-> None]
    /\ nset = 0
    /\ absent \in AbsentChoices
    /\ cc = [c \in Callers |-> IdleCached]
    /\ hist = NoReturn
    /\ markdown \in Texts
    /\ truncated = None
    /\ fed = 0
    /\ tables = EmptyTables
    /\ rendered = None

\* --------------------------------------------------------- resolve calls
\* The embed parse_items builds for an item; epoch records when it was built.
Render(item) == [title |-> item.name, url |-> ItemUrl(item), epoch |-> Epoch]

\* soup.find(id=symbol_data.symbol_id) of parsing.get_symbol_markdown finds a
\* tag; with None every branch of the function reads an attribute of None
HasAnchor(item) == ItemUrl(item) \notin absent

\* every request launches a parse loop
FirstRequestAlways(events) == TRUE

\* one item_events dict shared by all pages
FirstRequestShared(events) == \A p \in Pages : item_events[p] = <<>>

\* `if not self.item_events` of wait_for_item
FirstRequest(events) == events = <<>>

\* TODO_PLACEHOLDER.wait_for_item up to its await, for call c
WaitForItem(c, item, fetched) ==
    LET p == PageOf(item) IN
    IF ~InQueue(queue[p], item)
    THEN \* put_to_front: list.remove raises ValueError
         /\ call' = [call EXCEPT ![c] = [@ EXCEPT !.pc = "raised", !.item = item,
                                                  !.fetched = fetched]]
         /\ UNCHANGED <<queue, item_events, loops>>
    ELSE /\ queue' = [queue EXCEPT ![p] = put_to_front(@, item)]
         /\ item_events' = [item_events EXCEPT ![p] = Put(@, item, c)]
         /\ loops' = [loops EXCEPT ![p] = IF FirstRequest(item_events[p])
                                           THEN @ + 1 ELSE @]
         /\ call' = [call EXCEPT ![c] =
                        [@ EXCEPT !.pc = "waiting", !.item = item, !.fetched = fetched,
                                  !.launched = FirstRequest(item_events[p])]]

\* `if not q.started` of get_symbol_markdown
NeedsFetch(p) == ~started[p]

\* DocCog.get_symbol_embed(symbol) up to its first suspension
GetSymbolEmbed(c, symbol) ==
    /\ call[c].pc = "idle"
    /\ UNCHANGED <<inv, absent, rendered, cascadeState, cacheCalls, textState, cogState, taskState, started, evset, objects>>
    /\ IF symbol \notin DOMAIN doc_symbols
       THEN /\ call' = [call EXCEPT ![c] = [@ EXCEPT !.pc = "done"]]
            /\ UNCHANGED <<queue, item_events, loops>>
       ELSE LET item == doc_symbols[symbol] IN
            IF item.name \in DOMAIN objects
            THEN /\ call' = [call EXCEPT ![c] =
                               [@ EXCEPT !.pc = "done", !.item = item,
                                         !.ret = objects[item.name]]]
                 /\ UNCHANGED <<queue, item_events, loops>>
            ELSE IF NeedsFetch(PageOf(item))
            THEN /\ call' = [call EXCEPT ![c] =
                               [@ EXCEPT !.pc = "fetching", !.item = item,
                                         !.fetched = TRUE]]
                 /\ UNCHANGED <<queue, item_events, loops>>
            ELSE WaitForItem(c, item, FALSE)

\* The page fetch of call c returns: wait_for_item runs up to its await.
PageFetched(c) ==
    /\ call[c].pc = "fetching"
    /\ WaitForItem(c, call[c].item, TRUE)
    /\ UNCHANGED <<inv, absent, rendered, cascadeState, cacheCalls, textState, cogState, taskState, started, evset, objects>>

\* The Event of call c is set: get_symbol_markdown returns objects[name].
Return(c) ==
    /\ call[c].pc = "waiting"
    /\ c \in evset
    /\ call' = [call EXCEPT ![c] =
                  IF call[c].item.name \in DOMAIN objects
                  THEN [@ EXCEPT !.pc = "done", !.ret = objects[call[c].item.name]]
                  ELSE [@ EXCEPT !.pc = "raised"]]
    /\ UNCHANGED <<inv, absent, rendered, cascadeState, cacheCalls, textState, cogState, taskState, pageState>>

\* the Event is set although the embed is not stored
ParseItemsSignalFirst(p) ==
    /\ loops[p] > 0
    /\ queue[p] # <<>>
    /\ LET item == queue[p][Len(queue[p])] IN
       /\ queue' = [queue EXCEPT ![p] = SubSeq(@, 1, Len(@) - 1)]
       /\ evset' = IF item \in DOMAIN item_events[p]
                   THEN evset \cup {item_events[p][item]} ELSE evset
    /\ UNCHANGED <<inv, absent, rendered, cascadeState, cacheCalls, textState, cogState, taskState, started,
                   call, item_events, loops, objects>>

\* One pass of the while loop of parse_items for page p, or its end.
ParseItems(p) ==
    /\ loops[p] > 0
    /\ UNCHANGED <<inv, absent, rendered, cascadeState, cacheCalls, textState, cogState, taskState, started, call>>
    /\ IF queue[p] = <<>>
       THEN /\ loops' = [loops EXCEPT ![p] = @ - 1]
            /\ UNCHANGED <<queue, item_events, evset, objects>>
       ELSE LET item == queue[p][Len(queue[p])] IN
            /\ queue' = [queue EXCEPT ![p] = SubSeq(@, 1, Len(@) - 1)]
            /\ IF HasAnchor(item)
               THEN /\ objects' = Put(objects, item.name, Render(item))
                    /\ evset' = IF item \in DOMAIN item_events[p]
                                THEN evset \cup {item_events[p][item]} ELSE evset
                    /\ UNCHANGED <<item_events, loops>>
               ELSE \* get_symbol_markdown raises AttributeError: the task ends
                    /\ loops' = [loops EXCEPT ![p] = @ - 1]
                    /\ UNCHANGED <<item_events, evset, objects>>


\* ------------------------------------------------- refresh and ingestion
\* refreshes are numbered in the order their commands arrive
NextRefresh(r) == \A x \in Refreshes : x < r <=> rt[x].pc # "idle"

\* no other refresh is under way and no update_single is in flight
Quiet(r) ==
    /\ \A x \in Refreshes \ {r} : rt[x].pc \in {"idle", "done"}
    /\ \A t \in Owners \X Sources : upd[t].st \notin {"posted", "fetching"}

\* The synchronous head of refresh_inventory: the clears, up to the await of
\* the API's documentation links.
ClearAll(r) ==
    /\ base_urls' = <<>>
    /\ doc_symbols' = <<>>
    /\ renamed_symbols' = {}
    /\ cache' = <<>>
    /\ rt' = [rt EXCEPT ![r] = [pc |-> "listing", epoch |-> Epoch + 1,
                                alone |-> Quiet(r)]]
    /\ UNCHANGED <<inv, absent, rendered, cascadeState, cacheCalls, textState, registered, pageState, call, upd, snap, nset>>

\* refresh_command, or init_refresh_inventory once the guild is available
RefreshCommand(r) ==
    /\ rt[r].pc = "idle"
    /\ NextRefresh(r)
    /\ ClearAll(r)

\* delete_command: the API forgets the package, the refresh follows
DeleteCommand(r, s) ==
    /\ rt[r].pc = "idle"
    /\ NextRefresh(r)
    /\ s \in registered
    /\ registered' = registered \ {s}
    /\ rt' = [rt EXCEPT ![r] = [@ EXCEPT !.pc = "deleting"]]
    /\ UNCHANGED <<inv, absent, rendered, cascadeState, cacheCalls, textState, cogState, pageState, call, upd, snap, nset>>

DeleteRefresh(r) ==
    /\ rt[r].pc = "deleting"
    /\ ClearAll(r)

\* The documentation links arrive: one update_single per package is handed to
\* asyncio.gather; each sets its base URL and starts its first fetch attempt.
ListSources(r) ==
    /\ rt[r].pc = "listing"
    /\ rt' = [rt EXCEPT ![r] = [@ EXCEPT !.pc = "gathering"]]
    /\ base_urls' = [s \in registered |-> BaseUrlOf(s)] @@ base_urls
    /\ upd' = [t \in Owners \X Sources |->
                 IF t[1] = r /\ t[2] \in registered
                 THEN [st |-> "fetching", attempt |-> 1] ELSE upd[t]]
    /\ UNCHANGED <<inv, absent, rendered, cascadeState, cacheCalls, textState, registered, doc_symbols, renamed_symbols, cache, pageState,
                   call, snap, nset>>

\* set_command: the API stores the package, update_single follows
SetCommand(s) ==
    /\ nset < MaxSet
    /\ upd[<<0, s>>].st \notin {"posted", "fetching"}
    /\ nset' = nset + 1
    /\ registered' = registered \cup {s}
    /\ upd' = [upd EXCEPT ![<<0, s>>] = [st |-> "posted", attempt |-> 0]]
    /\ UNCHANGED <<inv, absent, rendered, cascadeState, cacheCalls, textState, cogState, pageState, call, rt, snap>>

SetUpdate(s) ==
    /\ upd[<<0, s>>].st = "posted"
    /\ base_urls' = Put(base_urls, s, BaseUrlOf(s))
    /\ upd' = [upd EXCEPT ![<<0, s>>] = [st |-> "fetching", attempt |-> 1]]
    /\ UNCHANGED <<inv, absent, rendered, cascadeState, cacheCalls, textState, registered, doc_symbols, renamed_symbols, cache, pageState,
                   call, rt, snap, nset>>

\* What one attempt of intersphinx.fetch_inventory can end in.
Transient == {"ConnectTimeout", "ProtocolError"}
Terminal == {"HTTPError", "ConnectionError"}
Outcomes == {"ok", "ValueError"} \cup Transient \cup Terminal

\* a terminal error is retried like a transient one
FetchResultRetryAll(outcome, attempt) ==
    IF outcome = "ok" THEN "package"
    ELSE IF outcome \in Transient \cup Terminal
    THEN IF attempt < FAILED_REQUEST_RETRY_AMOUNT THEN "retry" ELSE "None"
    ELSE "raise"

\* one attempt more than FAILED_REQUEST_RETRY_AMOUNT before giving up
FetchResultOneMore(outcome, attempt) ==
    IF outcome = "ok" THEN "package"
    ELSE IF outcome \in Transient
    THEN IF attempt <= FAILED_REQUEST_RETRY_AMOUNT THEN "retry" ELSE "None"
    ELSE IF outcome \in Terminal THEN "None"
    ELSE "raise"

\* What _fetch_inventory does with the outcome of attempt `attempt`:
\* "package" (return the inventory), "retry", "None" (return None), "raise".
FetchResult(outcome, attempt) ==
    IF outcome = "ok" THEN "package"
    ELSE IF outcome \in Transient
    THEN IF attempt < FAILED_REQUEST_RETRY_AMOUNT THEN "retry" ELSE "None"
    ELSE IF outcome \in Terminal THEN "None"
    ELSE "raise"

\* One fetch attempt of the update_single task t ends in `outcome`; on success
\* the task ingests the whole inventory without suspending.
FetchInventory(t, outcome) ==
    /\ upd[t].st = "fetching"
    /\ LET res == FetchResult(outcome, upd[t].attempt)
           s == t[2]
           st == IngestAll([doc_symbols |-> doc_symbols,
                            renamed_symbols |-> renamed_symbols, queue |-> queue],
                           s, BaseUrlOf(s), inv[s])
       IN  /\ upd' = [upd EXCEPT ![t] =
                        IF res = "retry" THEN [@ EXCEPT !.attempt = @ + 1]
                        ELSE [@ EXCEPT !.st = IF res = "package" THEN "ingested"
                                               ELSE IF res = "None" THEN "nothing"
                                               ELSE "raised"]]
           /\ IF res = "package"
              THEN /\ doc_symbols' = st.doc_symbols
                   /\ renamed_symbols' = st.renamed_symbols
                   /\ queue' = st.queue
              ELSE UNCHANGED <<doc_symbols, renamed_symbols, queue>>
    /\ UNCHANGED <<inv, absent, rendered, cascadeState, cacheCalls, textState, registered, base_urls, cache, objects, item_events, started,
                   loops, evset, call, rt, snap, nset>>

TasksOf(r) == {t \in Owners \X Sources : t[1] = r /\ upd[t].st # "none"}

\* asyncio.gather returns once every update_single has returned
GatherReturns(r) ==
    /\ rt[r].pc = "gathering"
    /\ \A t \in TasksOf(r) : upd[t].st \in {"ingested", "nothing"}
    /\ rt' = [rt EXCEPT ![r] = [@ EXCEPT !.pc = "done"]]
    /\ snap' = [snap EXCEPT ![r] = doc_symbols]
    /\ UNCHANGED <<inv, absent, rendered, cascadeState, cacheCalls, textState, registered, cogState, pageState, call, upd, nset>>

\* asyncio.gather raises as soon as one update_single has raised; the other
\* tasks keep running
GatherRaises(r) ==
    /\ rt[r].pc = "gathering"
    /\ \E t \in TasksOf(r) : upd[t].st = "raised"
    /\ rt' = [rt EXCEPT ![r] = [@ EXCEPT !.pc = "failed"]]
    /\ UNCHANGED <<inv, absent, rendered, cascadeState, cacheCalls, textState, registered, cogState, pageState, call, upd, snap,
                   nset>>

\* ------------------------------------------------------ doc.async_cache
\* async_cache.cache is an OrderedDict: the sequence of its [key, value]
\* entries in insertion order.  The key of a call is ':'.join(args[1:]), the
\* symbol asked for; the symbols are numbered.
CacheKeys == 1..(MaxSize + 1)

\* what the wrapped coroutine (get_symbol_embed) can return: an embed, or None
\* for a symbol that is not found
Embed(n) == [embed |-> n]
Values == {None, Embed(1), Embed(2)}

KeysOf(entries) == [n \in DOMAIN entries |-> entries[n].key]

CacheHas(entries, key) == \E n \in DOMAIN entries : entries[n].key = key

\* OrderedDict.get(key): None for a key that is not stored
CacheGet(entries, key) ==
    IF CacheHas(entries, key)
    THEN entries[CHOOSE n \in DOMAIN entries : entries[n].key = key].value
    ELSE None

\* the first store for a key stays
CachePutFirstWins(entries, key, value) ==
    IF CacheHas(entries, key) THEN entries
    ELSE Append(entries, [key |-> key, value |-> value])

\* OrderedDict[key] = value: a stored key keeps its place, a new one goes last
CachePut(entries, key, value) ==
    IF CacheHas(entries, key)
    THEN [n \in DOMAIN entries |->
             IF entries[n].key = key THEN [key |-> key, value |-> value]
             ELSE entries[n]]
    ELSE Append(entries, [key |-> key, value |-> value])

\* OrderedDict.popitem(): the entry stored last goes
PopItemLast(entries) == SubSeq(entries, 1, Len(entries) - 1)

\* OrderedDict.popitem(last=False): the entry stored first goes
PopItemFirst(entries) == Tail(entries)

\* The wrapper for caller c up to its await of the wrapped coroutine, or up to
\* its return when the value is found.  epoch is the number of resets of the
\* cache before the wrapped coroutine was invoked.
CachedCall(c, key) ==
    /\ cc[c].pc = "idle"
    /\ IF CacheGet(cache, key) = None
       THEN /\ cache' = IF Len(cache) > MaxSize THEN PopItemFirst(cache) ELSE cache
            /\ cc' = [cc EXCEPT ![c] = [pc |-> "computing", key |-> key,
                                        raced |-> FALSE, epoch |-> Epoch]]
            /\ UNCHANGED hist
       ELSE /\ hist' = [key |-> key, value |-> CacheGet(cache, key),
                        computed |-> FALSE, later |-> FALSE]
            /\ UNCHANGED <<cache, cc>>
    /\ UNCHANGED <<inv, absent, rendered, cascadeState, textState, base_urls, doc_symbols, renamed_symbols,
                   pageState, taskState, call>>

\* The wrapped coroutine of caller c returns `value`: it is stored and
\* returned.  A caller that is still computing the same key has raced with c.
CachedReturn(c, value) ==
    /\ cc[c].pc = "computing"
    /\ cache' = CachePut(cache, cc[c].key, value)
    /\ hist' = [key |-> cc[c].key, value |-> CacheGet(cache', cc[c].key),
                computed |-> TRUE, later |-> cc[c].raced]
    /\ cc' = [d \in Callers |->
                IF d = c THEN IdleCached
                ELSE IF cc[d].pc = "computing" /\ cc[d].key = cc[c].key
                THEN [cc[d] EXCEPT !.raced = TRUE]
                ELSE cc[d]]
    /\ UNCHANGED <<inv, absent, rendered, cascadeState, textState, base_urls, doc_symbols, renamed_symbols,
                   pageState, taskState, call>>

\* ------------------------------------------- the two collision cascades
\* The next inventory entry of package s goes through one iteration of the
\* loop of update_single, in cog.py and in doc.py.
FeedEntry(s, e) ==
    /\ fed < MaxFed
    /\ fed' = fed + 1
    /\ tables' = [cog |-> IngestEntry(tables.cog, s, BaseUrlOf(s), e),
                  old |-> IngestEntryOld(tables.old, s, BaseUrlOf(s), e)]
    /\ UNCHANGED <<inv, absent, rendered, cacheCalls, textState, cogState, pageState, taskState,
                   call>>

\* ------------------------------------------------------------ rendering
\* parsing.get_symbol_markdown for the symbol of a page; the assembly of
\* doc.py is given the same signatures and description.
GetSymbolMarkdown(page) ==
    /\ rendered = None
    /\ LET signature == SignatureOf(page)
           description == Without(page.description, Pilcrow)
       IN  rendered' = [page |-> page,
                        signature |-> signature,
                        description |-> PreparedDescription(description),
                        markdown |-> ParseIntoMarkdown(signature, description),
                        embed_description |->
                            EmbedDescription(signature,
                                             PreparedDescription(description))]
    /\ UNCHANGED <<inv, absent, cascadeState, cacheCalls, textState, cogState, pageState,
                   taskState, call>>

\* ------------------------------------------------------------ truncation
\* _parse_into_markdown hands the converted description to _truncate_markdown
Truncate ==
    /\ truncated = None
    /\ truncated' = [text |-> TruncateMarkdown(markdown, MaxLength)]
    /\ UNCHANGED <<inv, absent, rendered, cascadeState, cacheCalls, markdown, cogState, pageState, taskState,
                   call>>

\* ------------------------------------------------------- specifications
\* names a user can ask for
Queries == DOMAIN doc_symbols \cup {"foo"}

\* python serves the API inventory, lib the reference inventory
InitApiRef ==
    /\ markdown = <<>>
    /\ inv = [s \in Sources |-> IF s = "python" THEN InvApi ELSE InvRef]
    /\ Init

\* every anchor is in its page, no text is at hand
InitIngest ==
    /\ markdown = <<>>
    /\ absent = {}
    /\ Init

ResolveStep ==
    \/ \E c \in Callers, symbol \in Queries : GetSymbolEmbed(c, symbol)
    \/ \E c \in Callers : PageFetched(c)
    \/ \E c \in Callers : Return(c)
    \/ \E p \in Pages : ParseItems(p)

RefreshStep(rs) ==
    \/ \E r \in rs : RefreshCommand(r)
    \/ \E r \in rs : ListSources(r)
    \/ \E r \in rs : GatherReturns(r)

DeleteStep(rs) ==
    \/ \E r \in rs, s \in Sources : DeleteCommand(r, s)
    \/ \E r \in rs : DeleteRefresh(r)

SetStep ==
    \/ \E s \in Sources : SetCommand(s)
    \/ \E s \in Sources : SetUpdate(s)

FetchStep(outcomes) ==
    \E t \in Owners \X Sources, outcome \in outcomes : FetchInventory(t, outcome)

\* the outcomes of a fetch attempt that _fetch_inventory does not retry
Unretried == Outcomes \ Transient

\* Resolve calls beside a refresh or a delete command and set commands, with
\* inventory fetches that succeed, fail for good or raise.
Next ==
    \/ ResolveStep
    \/ RefreshStep(1..FewRefreshes)
    \/ \E r \in 1..FewRefreshes : GatherRaises(r)
    \/ DeleteStep(1..FewRefreshes)
    \/ SetStep
    \/ FetchStep(Unretried)

Spec == InitApiRef /\ [][Next]_vars

\* Resolve calls beside repeated refreshes whose inventory fetches succeed.
NextRefreshing ==
    \/ ResolveStep
    \/ RefreshStep(Refreshes)
    \/ FetchStep({"ok"})

SpecRefreshing == InitApiRef /\ [][NextRefreshing]_vars

\* The commands that change the symbol table, for every assignment of
\* inventories to sources and every outcome of every fetch attempt; nobody
\* resolves a symbol.
NextIngest ==
    \/ RefreshStep(1..FewRefreshes)
    \/ \E r \in 1..FewRefreshes : GatherRaises(r)
    \/ DeleteStep(1..FewRefreshes)
    \/ SetStep
    \/ FetchStep(Outcomes)

SpecIngest == InitIngest /\ [][NextIngest]_vars

\* Refreshes alone, one after or beside the other, for every assignment of
\* inventories to sources and every outcome of every fetch attempt.
NextTwice ==
    \/ RefreshStep(Refreshes)
    \/ \E r \in Refreshes : GatherRaises(r)
    \/ FetchStep(Outcomes)

SpecTwice == InitIngest /\ [][NextTwice]_vars

\* Calls of the cached function beside the refreshes that reset the cache.
CacheStep ==
    \/ \E c \in Callers, key \in CacheKeys : CachedCall(c, key)
    \/ \E c \in Callers, value \in Values : CachedReturn(c, value)

NextCache ==
    \/ CacheStep
    \/ \E r \in 1..FewRefreshes : RefreshCommand(r)

InitCache ==
    /\ inv = [s \in Sources |-> IF s = "python" THEN InvApi ELSE InvRef]
    /\ InitIngest

SpecCache == InitCache /\ [][NextCache]_vars

\* Refresh and delete commands, one after or beside the other, with inventory
\* fetches that succeed.
NextDelete ==
    \/ RefreshStep(Refreshes)
    \/ DeleteStep(Refreshes)
    \/ FetchStep({"ok"})

InitDelete ==
    /\ inv = [s \in Sources |-> IF s = "python" THEN InvApi ELSE InvRef]
    /\ InitIngest

SpecDelete == InitDelete /\ [][NextDelete]_vars

\* Sequences of inventory entries through the collision cascades.
NextCascade == \E s \in Sources, e \in CascadeEntries : FeedEntry(s, e)

SpecCascade == InitCache /\ [][NextCascade]_vars

\* get_symbol_markdown applied to every page of the model.
NextRender == \E page \in PageChoices : GetSymbolMarkdown(page)

InitRender ==
    /\ inv = [s \in Sources |-> IF s = "python" THEN InvApi ELSE InvRef]
    /\ InitIngest

SpecRender == InitRender /\ [][NextRender]_vars

\* _truncate_markdown applied to every text of the model.
InitText ==
    /\ inv = [s \in Sources |-> IF s = "python" THEN InvApi ELSE InvRef]
    /\ absent = {}
    /\ Init

NextTruncate == Truncate

SpecTruncate == InitText /\ [][NextTruncate]_vars

\* ---------------------------------------------------------------- claims
\* a call that is between its start and its return
InFlight(c) == call[c].pc \in {"fetching", "waiting"}

\* two in-flight calls for distinct symbols of one page
SharePage(c1, c2) ==
    /\ c1 # c2
    /\ InFlight(c1) /\ InFlight(c2)
    /\ call[c1].item # call[c2].item
    /\ PageOf(call[c1].item) = PageOf(call[c2].item)

\* C1: of the resolve calls for distinct symbols of one page that are in
\* flight together, at most one has fetched the page document and at most one
\* has launched a parse loop.
C1_SingleFetch ==
    \A c1, c2 \in Callers :
        SharePage(c1, c2) =>
            /\ ~(call[c1].fetched /\ call[c2].fetched)
            /\ ~(call[c1].launched /\ call[c2].launched)

\* The Event call c waits on can no longer be set: another call's Event has
\* replaced it in item_events, or the page's parse loop has ended (no new one
\* is launched once item_events is non-empty).
Stranded(c) ==
    /\ call[c].pc = "waiting"
    /\ c \notin evset
    /\ LET p == PageOf(call[c].item) IN
       \/ item_events[p][call[c].item] # c
       \/ loops[p] = 0

\* C2: every resolve call for a symbol of the table returns in the end; so no
\* call is ever left waiting on an Event that nothing will set.
C2_NoCallStranded == \A c \in Callers : ~Stranded(c)

\* C3: a resolve call for a symbol of the table never raises.
C3_NeverRaises == \A c \in Callers : call[c].pc # "raised"

\* C4: at most one parse loop is running for a page, in every reachable state.
C4_OneLoopPerPage == \A p \in Pages : loops[p] <= 1

\* two calls have passed wait_for_item on a page whose parse loop is running
C4_Witness ==
    \E c1, c2 \in Callers :
        /\ c1 # c2
        /\ call[c1].pc = "waiting" /\ call[c2].pc = "waiting"
        /\ PageOf(call[c1].item) = PageOf(call[c2].item)
        /\ loops[PageOf(call[c1].item)] = 1

\* what TODO_PLACEHOLDER holds for page p is left as it is
PageUnchanged(p) ==
    /\ queue'[p] = queue[p]
    /\ item_events'[p] = item_events[p]
    /\ started'[p] = started[p]
    /\ loops'[p] = loops[p]

\* C5: resolve work on one page neither changes nor depends on another page's
\* queue, started flag, Events or parse loop: a step of a resolve call or of a
\* parse loop leaves every other page as it is, and whether a call launches
\* its page's parse loop is decided by that page's own Events alone.
C5_PagesIndependent ==
    [][ /\ \A c \in Callers, p \in Pages :
              (call'[c] # call[c]
                 /\ (call'[c].item = None \/ PageOf(call'[c].item) # p))
              => PageUnchanged(p)
        /\ \A q \in Pages : \A p \in Pages \ {q} : ParseItems(q) => PageUnchanged(p)
        /\ \A c \in Callers :
              (call[c].pc # "waiting" /\ call'[c].pc = "waiting")
              => LET p == PageOf(call'[c].item) IN
                 loops'[p] = IF item_events[p] = <<>> THEN loops[p] + 1 ELSE loops[p]
      ]_vars

\* a call on one page has returned what it waited for while a call on another
\* page is still at its page fetch and that page's parse loop was never launched
C5_Witness ==
    \E c1, c2 \in Callers :
        /\ call[c2].pc = "done" /\ call[c2].fetched /\ call[c2].ret # None
        /\ call[c1].pc = "fetching"
        /\ PageOf(call[c1].item) # PageOf(call[c2].item)
        /\ item_events[PageOf(call[c1].item)] = <<>>
        /\ loops[PageOf(call[c1].item)] = 0

\* C6: once a refresh has completed, a resolve call returns no result that was
\* rendered before that refresh cleared the table.  (A call that has to wait
\* gets a result rendered after it started; the call that finds its result in
\* the results store is the one that can get an old one.)
C6_FreshAfterRefresh ==
    [][ \A c \in Callers :
           (call[c].pc = "idle" /\ call'[c].pc = "done" /\ call'[c].ret # None)
           => call'[c].ret.epoch >= LastCompleted
      ]_vars

\* every update_single of refresh r ingested its inventory
AllIngested(r) ==
    \A s \in Sources : upd[<<r, s>>].st = "ingested"

\* the same keys, mapped to entries of the same package, group and URL
SameTable(a, b) ==
    /\ DOMAIN a = DOMAIN b
    /\ \A k \in DOMAIN a :
          /\ a[k].package = b[k].package
          /\ a[k].group = b[k].group
          /\ ItemUrl(a[k]) = ItemUrl(b[k])

\* C7: two refreshes run one after the other, with nothing else running, over
\* the same sources and inventories leave the same symbol table, in whatever
\* order the update_single tasks of each finish.
C7_RefreshIdempotent ==
    \A r1, r2 \in Refreshes :
        (/\ r1 < r2
         /\ rt[r1].pc = "done" /\ rt[r2].pc = "done"
         /\ rt[r1].alone /\ rt[r2].alone
         /\ AllIngested(r1) /\ AllIngested(r2)
         /\ nset = 0)
        => SameTable(snap[r1], snap[r2])

\* the inventory of package s defines `symbol` in a group outside / inside
\* NO_OVERRIDE_GROUPS
Defines(s, symbol, inside) ==
    \E n \in DOMAIN inv[s] :
        /\ inv[s][n].symbol = symbol
        /\ (GroupName(inv[s][n].group) \in NO_OVERRIDE_GROUPS) = inside

\* the update_single task t ingests its inventory in this step
Ingests(t) == upd[t].st = "fetching" /\ upd'[t].st = "ingested"

\* C8: when the table holds "foo" for one source with a group in
\* NO_OVERRIDE_GROUPS and another source that defines "foo" with a group
\* outside it is ingested, the table afterwards has two distinct keys, one for
\* the entry that was there, unchanged, and one for an entry of the new source.
C8_BothKept ==
    [][ \A t \in Owners \X Sources :
           (/\ Ingests(t)
            /\ "foo" \in DOMAIN doc_symbols
            /\ doc_symbols["foo"].package # t[2]
            /\ doc_symbols["foo"].group \in NO_OVERRIDE_GROUPS
            /\ Defines(t[2], "foo", FALSE)
            /\ ~Defines(t[2], "foo", TRUE))
           => \E k1, k2 \in DOMAIN doc_symbols' :
                 /\ k1 # k2
                 /\ doc_symbols'[k1] = doc_symbols["foo"]
                 /\ doc_symbols'[k2].package = t[2]
                 /\ doc_symbols'[k2].symbol_id = "foo"
                 /\ doc_symbols'[k2].group \notin NO_OVERRIDE_GROUPS
      ]_vars

\* both sources' entries for "foo" are in the table, the one with the group
\* in NO_OVERRIDE_GROUPS having been there first: either it kept the key
\* "foo", or it was moved from "foo" to a prefixed key (and kept its name)
C8_Witness ==
    /\ "foo" \in DOMAIN doc_symbols
    /\ \E k \in DOMAIN doc_symbols \ {"foo"} :
          /\ doc_symbols[k].package # doc_symbols["foo"].package
          /\ doc_symbols[k].symbol_id = "foo"
          /\ \/ /\ doc_symbols["foo"].group \in NO_OVERRIDE_GROUPS
                /\ doc_symbols[k].group \notin NO_OVERRIDE_GROUPS
             \/ /\ doc_symbols[k].name = "foo"
                /\ doc_symbols[k].group \in NO_OVERRIDE_GROUPS
                /\ doc_symbols["foo"].group \notin NO_OVERRIDE_GROUPS

\* C9: every key of the symbol table maps to a DocItem whose name is that key.
C9_NameIsKey == \A k \in DOMAIN doc_symbols : doc_symbols[k].name = k

\* C10: a source whose inventory fetch fails, in whatever way, does not make
\* the refresh fail.
C10_RefreshNeverFails == \A r \in Refreshes : rt[r].pc # "failed"

\* C11: update_single makes at most 3 inventory fetch attempts: a transient
\* failure of an attempt before the third is followed by another attempt, a
\* transient failure of the third ends the task with nothing ingested, and a
\* successful attempt ingests every symbol of the inventory (those with a
\* slash aside).
C11_ThreeAttempts ==
    [][ \A t \in Owners \X Sources :
           /\ upd'[t].attempt <= 3
           /\ \A outcome \in Transient :
                 FetchInventory(t, outcome)
                 => /\ doc_symbols' = doc_symbols
                    /\ upd'[t] = IF upd[t].attempt < 3
                                 THEN [st |-> "fetching", attempt |-> upd[t].attempt + 1]
                                 ELSE [st |-> "nothing", attempt |-> 3]
           /\ FetchInventory(t, "ok")
              => /\ upd'[t] = [st |-> "ingested", attempt |-> upd[t].attempt]
                 /\ \A n \in DOMAIN inv[t[2]] :
                       HasSlash(inv[t[2]][n].symbol)
                       \/ \E k \in DOMAIN doc_symbols' :
                             /\ doc_symbols'[k].package = t[2]
                             /\ doc_symbols'[k].relative_url_path
                                   = inv[t[2]][n].relative_doc_url[1]
                             /\ doc_symbols'[k].symbol_id
                                   = inv[t[2]][n].relative_doc_url[2]
      ]_vars

\* one task has ingested its inventory at its third attempt, another has
\* ended without an inventory at its third attempt
C11_Witness ==
    \E t1, t2 \in Owners \X Sources :
        /\ upd[t1] = [st |-> "ingested", attempt |-> 3]
        /\ upd[t2] = [st |-> "nothing", attempt |-> 3]
        /\ \E k \in DOMAIN doc_symbols : doc_symbols[k].package = t1[2]
        /\ \A k \in DOMAIN doc_symbols : doc_symbols[k].package # t2[2]

\* C12: when the parse loop comes to a symbol whose anchor the page lacks, the
\* loop keeps running (the symbols still queued will be rendered) and the
\* caller waiting for that symbol is woken to get its negative result.
C12_MissingAnchorIsLocal ==
    [][ \A p \in Pages :
           (/\ ParseItems(p)
            /\ queue[p] # <<>>
            /\ ~HasAnchor(queue[p][Len(queue[p])]))
           => /\ loops'[p] = loops[p]
              /\ LET item == queue[p][Len(queue[p])] IN
                 item \in DOMAIN item_events[p] => item_events[p][item] \in evset'
      ]_vars

\* C13: when the cache holds max_size keys and one more distinct key is
\* inserted, with no other call under way, the first-inserted key is evicted:
\* the cache then holds the other max_size keys, the new one last.
C13_FirstKeyEvicted ==
    [][ \A c \in Callers :
           (/\ cc[c].pc = "computing" /\ cc'[c].pc = "idle"
            /\ \A d \in Callers \ {c} : cc[d].pc = "idle"
            /\ Len(cache) = MaxSize
            /\ ~CacheHas(cache, cc[c].key))
           => KeysOf(cache') = Tail(KeysOf(cache)) \o <<cc[c].key>>
      ]_vars

\* C14: a call whose key is stored in the cache returns the stored value and
\* does not invoke the wrapped coroutine, whatever the stored value is.
C14_HitReturnsStored ==
    [][ \A c \in Callers, k \in CacheKeys :
           (CachedCall(c, k) /\ CacheHas(cache, k))
           => /\ cc'[c].pc = "idle"
              /\ cache' = cache
              /\ hist' = [key |-> k, value |-> CacheGet(cache, k),
                          computed |-> FALSE, later |-> FALSE]
      ]_vars

\* C15: the cache has no single-flight: a call that misses invokes the wrapped
\* coroutine also while another caller is computing the same key; and when
\* the later of two such callers stores its value, the cache holds one entry
\* for the key, with that value, which is what the caller returns.
C15_LaterStoreSurvives ==
    [][ \A c \in Callers :
           /\ \A k \in CacheKeys :
                 (CachedCall(c, k) /\ ~CacheHas(cache, k))
                 => cc'[c] = [pc |-> "computing", key |-> k, raced |-> FALSE,
                              epoch |-> Epoch]
           /\ \A v \in Values :
                 (CachedReturn(c, v) /\ cc[c].raced)
                 => /\ Cardinality({n \in DOMAIN cache' : cache'[n].key = cc[c].key}) = 1
                    /\ CacheGet(cache', cc[c].key) = v
                    /\ hist'.value = v
      ]_vars

\* the later of two callers that both missed the same key has just stored a
\* value other than the one the earlier had stored
C15_Witness ==
    /\ hist.computed /\ hist.later
    /\ hist.value # None
    /\ CacheGet(cache, hist.key) = hist.value
    /\ \A c \in Callers : cc[c].pc = "idle"

\* C16: the output of truncation for a text longer than max_length, the
\* appended ellipsis included, is at most max_length characters long.
C16_TruncatedFits ==
    (truncated # None /\ Len(markdown) > MaxLength) => Len(truncated.text) <= MaxLength

\* C17: the output of truncation for a text longer than max_length that has
\* an even number of fence markers has an even number of fence markers.
C17_FencesClosed ==
    (truncated # None /\ Len(markdown) > MaxLength /\ Count(markdown, Fence) % 2 = 0)
    => Count(truncated.text, Fence) % 2 = 0

\* C18: the started flag of a page is set once a resolve call has fetched the
\* page document, it is never cleared, and no resolve call fetches a page
\* whose flag is set.
C18_StartedAfterFetch ==
    [][ /\ \A p \in Pages : started[p] => started'[p]
        /\ \A c \in Callers :
              (PageFetched(c) /\ call'[c].pc = "waiting")
              => started'[PageOf(call[c].item)]
        /\ \A c \in Callers :
              (call[c].pc = "idle" /\ call'[c].pc = "fetching")
              => ~started[PageOf(call'[c].item)]
      ]_vars

\* a call is waiting for `item` to be rendered
Requested(item) ==
    \E c \in Callers : call[c].pc = "waiting" /\ c \notin evset /\ call[c].item = item

\* C19: a symbol a resolve call has moved to the position that is popped next
\* stays there until the parse loop pops it or a later resolve call moves its
\* own symbol there: nothing else changes the page's queue in between.
C19_RequestedIsNext ==
    [][ \A p \in Pages :
           (/\ queue[p] # <<>>
            /\ Requested(queue[p][Len(queue[p])])
            /\ queue'[p] # queue[p])
           => \/ queue'[p] = SubSeq(queue[p], 1, Len(queue[p]) - 1)
              \/ \E c \in Callers :
                    /\ call[c].pc # "waiting" /\ call'[c].pc = "waiting"
                    /\ queue'[p] = put_to_front(queue[p], call'[c].item)
      ]_vars

\* C20: whenever the Event of a call is set, the results store holds an entry
\* under the name of the call's symbol.
C20_SignaledHasResult ==
    \A c \in Callers :
        c \in evset => (call[c].item # None /\ call[c].item.name \in DOMAIN objects)

\* a call that waited has been woken and has returned the stored embed
C20_Witness ==
    \E c \in Callers :
        /\ c \in evset
        /\ call[c].pc = "done"
        /\ call[c].ret = objects[call[c].item.name]

\* every symbol of the table that lies on page p is in the results store
AllRendered(p) ==
    \A k \in DOMAIN doc_symbols :
        PageOf(doc_symbols[k]) = p => doc_symbols[k].name \in DOMAIN objects

\* C21: a parse loop ends only when its page's queue is empty, and by then
\* every symbol ingested for the page is in the results store.
C21_LoopEndsWhenDone ==
    [][ \A p \in Pages :
           loops'[p] < loops[p] => (queue[p] = <<>> /\ queue'[p] = <<>> /\ AllRendered(p))
      ]_vars

\* C22: a page's queue never holds the same symbol twice.
C22_NoDuplicates ==
    \A p \in Pages :
        \A m, n \in DOMAIN queue[p] : m # n => queue[p][m] # queue[p][n]

\* C23: an HTTPError or ConnectionError at any attempt ends the update_single
\* at that attempt, with the symbol table, the renamed set and the parse
\* queues left as they were; no attempt follows.
C23_TerminalEndsIngest ==
    [][ \A t \in Owners \X Sources :
           /\ \A outcome \in Terminal :
                 FetchInventory(t, outcome)
                 => /\ upd'[t] = [st |-> "nothing", attempt |-> upd[t].attempt]
                    /\ doc_symbols' = doc_symbols
                    /\ renamed_symbols' = renamed_symbols
                    /\ queue' = queue
           /\ upd[t].st = "nothing" => upd'[t].st # "fetching"
      ]_vars

\* an update_single has ended at its second attempt, which only a terminal
\* error does, beside a table that holds the other source's symbols only
C23_Witness ==
    \E t \in Owners \X Sources :
        /\ upd[t] = [st |-> "nothing", attempt |-> 2]
        /\ doc_symbols # <<>>
        /\ \A k \in DOMAIN doc_symbols : doc_symbols[k].package # t[2]

\* ---------------------------------------------------- collision cascade
\* the entry's symbol is already a key of the table
Collides(tab, e) == ~HasSlash(e.symbol) /\ e.symbol \in DOMAIN tab

\* the condition of the first row of the cascade
FirstCondition(tab, e) ==
    /\ Collides(tab, e)
    /\ \/ GroupName(e.group) \in NO_OVERRIDE_GROUPS
       \/ \E pk \in NO_OVERRIDE_PACKAGES :
             IsSubstring(pk, UrlHost(tab[e.symbol].base_url))

\* the condition of the second row
SecondCondition(tab, e) ==
    /\ Collides(tab, e)
    /\ ~FirstCondition(tab, e)
    /\ tab[e.symbol].group \in NO_OVERRIDE_GROUPS

\* the condition of the third row
ThirdCondition(st, e) ==
    /\ Collides(st.doc_symbols, e)
    /\ ~FirstCondition(st.doc_symbols, e)
    /\ ~SecondCondition(st.doc_symbols, e)
    /\ e.symbol \in st.renamed_symbols

\* key holds the entry e of package s
HoldsNew(tab, key, s, e) ==
    /\ key \in DOMAIN tab
    /\ tab[key].package = s
    /\ tab[key].group = GroupName(e.group)
    /\ tab[key].base_url = BaseUrlOf(s)

\* the DocItem cog.py builds for entry e of package s under key
NewItem(key, s, e) ==
    DocItem(key, s, GroupName(e.group), BaseUrlOf(s),
            e.relative_doc_url[1], e.relative_doc_url[2])

\* C24: in both cascades of the source, a colliding entry that meets the first
\* condition (its group is a NO_OVERRIDE_GROUP, or the existing entry's base
\* URL is of a NO_OVERRIDE_PACKAGE) is stored under "{group}.{symbol}", that
\* key is in the renamed set afterwards, and the existing entry is unchanged
\* under the original key.
C24_FirstBranchRenames ==
    [][ \A s \in Sources, e \in CascadeEntries : FeedEntry(s, e) =>
          \A v \in {"cog", "old"} :
             FirstCondition(tables[v].doc_symbols, e) =>
                LET key == Prefixed(GroupName(e.group), e.symbol)
                IN  /\ HoldsNew(tables'[v].doc_symbols, key, s, e)
                    /\ key \in tables'[v].renamed_symbols
                    /\ tables'[v].doc_symbols[e.symbol]
                          = tables[v].doc_symbols[e.symbol] ]_vars

\* C25: in cog.py, on a collision where the first condition fails and the
\* existing entry's group is a NO_OVERRIDE_GROUP, the existing entry is put
\* under "{existing_group}.{symbol}", prefixed with the requesting package
\* when that key is already renamed; the key is marked renamed and the new
\* entry is stored under the original symbol.
C25_SecondBranchMovesExisting ==
    [][ \A s \in Sources, e \in CascadeEntries : FeedEntry(s, e) =>
          (SecondCondition(tables.cog.doc_symbols, e) =>
             LET existing == tables.cog.doc_symbols[e.symbol]
                 grouped == Prefixed(existing.group, e.symbol)
                 key == IF grouped \in tables.cog.renamed_symbols
                        THEN Prefixed(s, grouped) ELSE grouped
             IN  /\ key \in DOMAIN tables'.cog.doc_symbols
                 /\ tables'.cog.doc_symbols[key] = existing
                 /\ tables'.cog.renamed_symbols
                       = tables.cog.renamed_symbols \cup {key}
                 /\ tables'.cog.doc_symbols[e.symbol] = NewItem(e.symbol, s, e)) ]_vars

\* the existing entry went under the package-prefixed key
C25_Witness ==
    /\ "python.label.foo" \in DOMAIN tables.cog.doc_symbols
    /\ tables.cog.doc_symbols["python.label.foo"].package = "lib"
    /\ "python.label.foo" \in tables.cog.renamed_symbols
    /\ tables.cog.doc_symbols["foo"].package = "python"

\* C26: in cog.py, on a collision where neither of the first two conditions
\* holds and the symbol is in the renamed set, the new entry is stored under
\* "{package}.{symbol}" and that key is marked renamed; the renamed-set check
\* is not made after one of the first two branches, so an entry adds at most
\* one key to the table and one to the renamed set; when no condition holds
\* the new entry replaces the existing one under the same key.
C26_ThirdBranchExclusive ==
    [][ \A s \in Sources, e \in CascadeEntries : FeedEntry(s, e) =>
          LET before == tables.cog
              after == tables'.cog
              group_key == Prefixed(GroupName(e.group), e.symbol)
              package_key == Prefixed(s, e.symbol)
          IN  /\ ThirdCondition(before, e) =>
                    /\ package_key \in DOMAIN after.doc_symbols
                    /\ after.doc_symbols[package_key] = NewItem(package_key, s, e)
                    /\ after.renamed_symbols
                          = before.renamed_symbols \cup {package_key}
                    /\ after.doc_symbols[e.symbol] = before.doc_symbols[e.symbol]
              /\ FirstCondition(before.doc_symbols, e) =>
                    /\ group_key \in DOMAIN after.doc_symbols
                    /\ after.doc_symbols[group_key] = NewItem(group_key, s, e)
                    /\ DOMAIN after.doc_symbols
                          = DOMAIN before.doc_symbols \cup {group_key}
              /\ SecondCondition(before.doc_symbols, e) =>
                    /\ after.doc_symbols[e.symbol] = NewItem(e.symbol, s, e)
                    /\ package_key \notin
                          DOMAIN after.doc_symbols \ DOMAIN before.doc_symbols
              /\ Cardinality(after.renamed_symbols \ before.renamed_symbols) <= 1
              /\ Cardinality(DOMAIN after.doc_symbols \ DOMAIN before.doc_symbols) <= 1
              /\ (/\ Collides(before.doc_symbols, e)
                  /\ ~FirstCondition(before.doc_symbols, e)
                  /\ ~SecondCondition(before.doc_symbols, e)
                  /\ ~ThirdCondition(before, e)) =>
                    /\ after.doc_symbols[e.symbol] = NewItem(e.symbol, s, e)
                    /\ DOMAIN after.doc_symbols = DOMAIN before.doc_symbols
                    /\ after.renamed_symbols = before.renamed_symbols ]_vars

\* the third branch stored an entry of lib under "lib.class.foo"
C26_Witness ==
    /\ "lib.class.foo" \in DOMAIN tables.cog.doc_symbols
    /\ tables.cog.doc_symbols["lib.class.foo"].group = "attribute"
    /\ "lib.class.foo" \in tables.cog.renamed_symbols
    /\ tables.cog.doc_symbols["class.foo"].group = "class"

\* the two cascades have built the same table so far
SameTables ==
    /\ DOMAIN tables.cog.doc_symbols = DOMAIN tables.old.doc_symbols
    /\ tables.cog.renamed_symbols = tables.old.renamed_symbols
    /\ \A k \in DOMAIN tables.cog.doc_symbols :
          /\ tables.cog.doc_symbols[k].package = tables.old.doc_symbols[k].package
          /\ tables.cog.doc_symbols[k].group = tables.old.doc_symbols[k].group

\* C27: the cascade of doc.py and that of cog.py are not equivalent: from equal
\* tables, a colliding entry that meets the first condition and whose
\* "{group}.{symbol}" is not yet renamed leaves that key in the renamed set
\* of cog.py and out of the renamed set of doc.py.
C27_CascadesDiverge ==
    [][ \A s \in Sources, e \in CascadeEntries : FeedEntry(s, e) =>
          LET key == Prefixed(GroupName(e.group), e.symbol)
          IN  (/\ SameTables
               /\ FirstCondition(tables.cog.doc_symbols, e)
               /\ key \notin tables.cog.renamed_symbols) =>
                 /\ key \in tables'.cog.renamed_symbols
                 /\ key \notin tables'.old.renamed_symbols ]_vars

\* a sequence of entries after which both the key sets and the renamed sets
\* of the two cascades differ
C27_Witness ==
    /\ DOMAIN tables.cog.doc_symbols # DOMAIN tables.old.doc_symbols
    /\ tables.cog.renamed_symbols # tables.old.renamed_symbols

\* the refresh r has completed and ran no update_single for package s, which
\* the API no longer lists: s was deleted and the table rebuilt without it
DeletedAndRefreshed(r, s) ==
    /\ rt[r].pc = "done"
    /\ upd[<<r, s>>].st = "none"
    /\ s \notin registered

\* C28: once a package is deleted and the refresh that follows has completed,
\* no key of doc_symbols maps to a symbol of that package (so get_symbol_embed
\* returns None for a name only that package defines), also when an
\* update_single of an earlier refresh was in flight at the clear.
C28_DeletedPackageGone ==
    \A r \in Refreshes, s \in Sources :
       DeletedAndRefreshed(r, s) =>
          \A k \in DOMAIN doc_symbols : doc_symbols[k].package # s

\* the call of key k finds a value
CacheHit(k) == CacheGet(cache, k) # None

C30_NoStaleStore ==
    [][ \A c \in Callers, v \in Values :
           (CachedReturn(c, v) /\ cc[c].epoch < Epoch) => cache' = cache
      ]_vars

\* out is the description, after a newline at most
DescriptionOnly(out, description) ==
    out = description \/ out = <<"\n">> \o description

\* what the two assemblies of the source made of the rendered page
Assembled == {rendered.markdown, rendered.embed_description}

\* C31: the assembly has three cases: without a signature the output is the
\* description only; with a signature list that is empty it is the fixed
\* fallback text; with a non-empty list it is the fenced signature blocks and
\* then the description.
C31_ThreeCases ==
    rendered # None =>
       \A out \in Assembled :
          /\ rendered.signature = None => DescriptionOnly(out, rendered.description)
          /\ (rendered.signature # None /\ rendered.signature.list = <<>>) =>
                out = FallbackText
          /\ (rendered.signature # None /\ rendered.signature.list # <<>>) =>
                out = Codeblocks(rendered.signature.list, 1)
                         \o <<"\n">> \o rendered.description

\* the groups that are rendered without a signature
SignatureFree ==
    {"attribute", "envvar", "setting", "templatefilter", "templatetag", "term"}

\* C32: for an anchor that is a dt tag, a symbol of the groups attribute,
\* envvar, setting, templatefilter, templatetag and term has no signature, and
\* a symbol of any other group but module, doc and label has a computed one.
C32_GroupsWithoutSignature ==
    (rendered # None /\ rendered.page.name = "dt") =>
       /\ rendered.page.group \in SignatureFree => rendered.signature = None
       /\ rendered.page.group \notin SignatureFree \cup GeneralGroups =>
             rendered.signature = [list |-> GetSignatures(rendered.page)]

\* C33: every DocItem stored in doc_symbols is an element of the queue of its
\* page or has its name in the results dict.
C33_StoredIsQueuedOrRendered ==
    \A k \in DOMAIN doc_symbols :
       \/ InQueue(queue[PageOf(doc_symbols[k])], doc_symbols[k])
       \/ doc_symbols[k].name \in DOMAIN objects

\* two calls that wait for the same DocItem, which is not rendered yet
WaitTogether(c1, c2) ==
    /\ c1 # c2
    /\ call[c1].pc = "waiting" /\ call[c2].pc = "waiting"
    /\ call[c1].item = call[c2].item
    /\ c1 \notin evset /\ c2 \notin evset

\* C34: when the parse loop renders a symbol two calls are waiting for, the
\* Events of both calls are set.
C34_BothWoken ==
    [][ \A p \in Pages : ParseItems(p) =>
          \A c1, c2 \in Callers :
             (/\ WaitTogether(c1, c2)
              /\ PageOf(call[c1].item) = p
              /\ queue[p] # <<>>
              /\ queue[p][Len(queue[p])] = call[c1].item
              /\ call[c1].item.name \in DOMAIN objects')
             => (c1 \in evset' /\ c2 \in evset') ]_vars

\* C35: every name in renamed_symbols is a key of doc_symbols, in every state
\* that set commands, delete commands and refreshes lead to.
C35_RenamedAreKeys == renamed_symbols \subseteq DOMAIN doc_symbols

\* a refresh has cleared the table and a later ingestion has renamed a symbol
C35_Witness ==
    /\ renamed_symbols # {}
    /\ \E r \in Refreshes : rt[r].pc = "done"
    /\ \E k \in renamed_symbols : doc_symbols[k].name = k

\* every entry of the inventory of package s is in the table as s stored it
AlreadyIngested(s) ==
    \A n \in DOMAIN inv[s] :
       LET e == inv[s][n] IN
       ~HasSlash(e.symbol) =>
          /\ e.symbol \in DOMAIN doc_symbols
          /\ doc_symbols[e.symbol]
                = NewItem(e.symbol, s, e)

\* C36: a set command for a package whose entries are all in the table
\* already, with the same base URL and inventory, leaves the keys of
\* doc_symbols and renamed_symbols as they were.
C36_ReingestIsIdempotent ==
    [][ \A s \in Sources :
           (FetchInventory(<<0, s>>, "ok") /\ AlreadyIngested(s)) =>
              /\ DOMAIN doc_symbols' = DOMAIN doc_symbols
              /\ renamed_symbols' = renamed_symbols ]_vars
====
